---- MODULE Spec2Model ----
(***************************************************************************)
(* Model of tutorials/optimize_with_cmaes.ipynb: the glue code that drives *)
(* a CMA-ES optimizer through its ask/tell interface to optimize a botorch *)
(* acquisition function.                                                   *)
(*                                                                         *)
(* Numbers.  A float64 coordinate is an integer number of grid steps, the  *)
(* value 1.0 being One steps.  float32 has half the resolution: only the   *)
(* even grid points are float32 values, and a conversion to float32 rounds *)
(* to the nearest of them, ties to even.  Scores are integers.             *)
(*                                                                         *)
(* The optimizer (cma) and the acquisition function are external: what     *)
(* ask() samples, when stop() fires and what acq_func computes are chosen  *)
(* nondeterministically; any external call may raise.                      *)
(***************************************************************************)
EXTENDS Integers, Sequences, FiniteSets, TLC

\* ------------------------------------------------------------------ bounds
MaxIter == 2       \* the optimizer's own iteration budget (its maxiter)
PopSize == 2       \* stands for "popsize": 100
MaxDim == 2        \* d ranges over 1..MaxDim
Res == 1           \* the number of float32 steps in [0, 1]

One == 2 * Res     \* the value 1.0, in float64 grid steps
Inf == 1000        \* the initial es.best.f, above every score

None == << >>      \* an unassigned array
NoTensor == [device |-> "none", dtype |-> "none", data |-> None]

VARIABLES
  pc,        \* the next statement of the cell
  X_init,    \* the initial condition, a d-dim tensor
  acq,       \* the parameters of the user's acquisition function
  x0,        \* line 45
  es,        \* the optimizer object, line 48
  stopped,   \* what the last es.stop() returned
  xs, X, Y, y,   \* the loop's locals, lines 60-65
  best_x,    \* lines 69-71
  told,      \* the arguments of the last es.tell()
  reported,  \* every (candidate, score) pair passed to es.tell() so far
  nStop, nAsk, nAcq, nTell,   \* calls made so far
  failedAt   \* the statement that raised, "" when none did

vars == <<pc, X_init, acq, x0, es, stopped, xs, X, Y, y, best_x, told, reported,
          nStop, nAsk, nAcq, nTell, failedAt>>

locals == <<xs, X, Y, y>>
counts == <<nStop, nAsk, nAcq, nTell>>
inputs == <<X_init, acq>>

\* ----------------------------------------------------------- conversions
Devices == {"cpu", "cuda"}
Dtypes == {"float32", "float64"}

\* the nearest float32 value of a float64 value, ties to even
Round32(v) ==
  IF v % 2 = 0 THEN v
  ELSE IF ((v - 1) \div 2) % 2 = 0 THEN v - 1 ELSE v + 1

\* Tensor.to(dtype=...) / Tensor.double() on one number
ToDtype(v, dtype) == IF dtype = "float32" THEN Round32(v) ELSE v

ToDtypeVec(x, dtype) == [j \in DOMAIN x |-> ToDtype(x[j], dtype)]

\* torch.from_numpy(a): a float64 cpu tensor with the array's numbers
from_numpy(a) == [device |-> "cpu", dtype |-> "float64", data |-> a]

\* t.to(device=..., dtype=...) on a batch of vectors
ToBatch(t, device, dtype) ==
  [device |-> device, dtype |-> dtype,
   data |-> [i \in DOMAIN t.data |-> ToDtypeVec(t.data[i], dtype)]]

\* line 71 left out: best_x stays the float64 cpu tensor of line 69
ToVec_Skipped(t, device, dtype) == t

\* t.to(device=..., dtype=...) on one vector
ToVec(t, device, dtype) ==
  [device |-> device, dtype |-> dtype, data |-> ToDtypeVec(t.data, dtype)]

\* -------------------------------------------------- acquisition function
RECURSIVE SumSq(_, _, _)
SumSq(x, t, j) == IF j = 0 THEN 0 ELSE (x[j] - t) * (x[j] - t) + SumSq(x, t, j - 1)

\* the user's acq_func at one point: a bowl (w = 1) or a peak (w = -1) at t
acq_func(p, x) == p.w * SumSq(x, p.t, Len(x))

AcqFuncs == [w : {-1, 1}, t : {0, One}]

\* the sign forgotten: Y = acq_func(X)
NegAcq_NoSign(p, Xt) ==
  [device |-> Xt.device, dtype |-> Xt.dtype,
   data |-> [i \in DOMAIN Xt.data |-> acq_func(p, Xt.data[i])]]

\* the batch taken as one joint q-batch: a single score for the population
NegAcq_Joint(p, Xt) ==
  [device |-> Xt.device, dtype |-> Xt.dtype,
   data |-> <<0 - acq_func(p, Xt.data[1])>>]

\* Y = - acq_func(X): one batched call, one score per row of X
NegAcq(p, Xt) ==
  [device |-> Xt.device, dtype |-> Xt.dtype,
   data |-> [i \in DOMAIN Xt.data |-> 0 - acq_func(p, Xt.data[i])]]

\* ------------------------------------------------------------ optimizer
\* where the sampler can centre a draw: below the cube, inside it, above it
RawVals == {0 - 1, 1, One + 1}

\* the N-dim points the sampler can draw before the bounds apply
RawPoints(N) == {[j \in 1 .. N |-> s + (j - 1)] : s \in RawVals}

\* the bounds option left out
Repair_NoBounds(v) == v

\* inopts={'bounds': [0, 1]}: a sampled coordinate is brought into [0, 1]
Repair(v) == IF v < 0 THEN 0 ELSE IF v > One THEN One ELSE v

RepairPop(raw) == [i \in DOMAIN raw |-> [j \in DOMAIN raw[i] |-> Repair(raw[i][j])]]

\* the index of the first least score of f
ArgMin(f) ==
  CHOOSE i \in DOMAIN f :
    /\ \A k \in DOMAIN f : f[i] <= f[k]
    /\ \A k \in DOMAIN f : f[k] = f[i] => i <= k

\* the best of the last population only
BestUpdate_Last(best, sols, f) ==
  LET i == ArgMin(f) IN [x |-> sols[i], f |-> f[i]]

\* es.tell keeps the best solution ever told: replaced on a strictly lower score
BestUpdate(best, sols, f) ==
  LET i == ArgMin(f) IN
  IF f[i] < best.f THEN [x |-> sols[i], f |-> f[i]] ELSE best

\* the (candidate, score) pairs of one es.tell(sols, f) call
Pairs(sols, f) ==
  {[x |-> sols[i], f |-> f[i]] : i \in DOMAIN sols \cap DOMAIN f}

NoEs == [N |-> 0, sent |-> None, best |-> [x |-> None, f |-> Inf], countiter |-> 0]

\* --------------------------------------------------------------- Init
XInitVals == {0 - 2, One}

Init ==
  /\ pc = "construct"
  /\ \E d \in 1 .. MaxDim, dev \in Devices, dt \in Dtypes, c \in XInitVals :
       X_init = [device |-> dev, dtype |-> dt, data |-> [j \in 1 .. d |-> c]]
  /\ acq \in AcqFuncs
  /\ x0 = None
  /\ es = NoEs
  /\ stopped = FALSE
  /\ xs = None /\ y = None
  /\ X = NoTensor /\ Y = NoTensor
  /\ best_x = NoTensor
  /\ told = [xs |-> None, y |-> None]
  /\ reported = {}
  /\ nStop = 0 /\ nAsk = 0 /\ nAcq = 0 /\ nTell = 0
  /\ failedAt = ""

\* the exception swallowed and the loop resumed
Raise_Resume(at) ==
  /\ pc' = "stop"
  /\ failedAt' = at

\* an external call raises: the exception leaves the cell
Raise(at) ==
  /\ pc' = "failed"
  /\ failedAt' = at

\* ------------------------------------------------------------- actions
\* lines 45-52: x0 = X_init.cpu().double().numpy(); es = cma.CMAEvolutionStrategy(...)
Construct ==
  /\ pc = "construct"
  /\ \/ /\ x0' = ToDtypeVec(X_init.data, "float64")
        /\ es' = [NoEs EXCEPT !.N = Len(X_init.data)]
        /\ pc' = "stop"
        /\ UNCHANGED failedAt
     \/ /\ Raise("construct")
        /\ UNCHANGED <<x0, es>>
  /\ UNCHANGED <<inputs, stopped, locals, best_x, told, reported, counts>>

\* the test inverted: while es.stop()
StopCheck_Inverted ==
  /\ pc = "stop"
  /\ \E b \in BOOLEAN :
       /\ es.countiter >= MaxIter => b
       /\ stopped' = b
       /\ pc' = IF b THEN "ask" ELSE "from_numpy"
  /\ nStop' = nStop + 1
  /\ UNCHANGED <<inputs, x0, es, locals, best_x, told, reported, nAsk, nAcq, nTell, failedAt>>

\* line 59: while not es.stop()
StopCheck ==
  /\ pc = "stop"
  /\ \E b \in BOOLEAN :
       /\ es.countiter >= MaxIter => b
       /\ stopped' = b
       /\ pc' = IF b THEN "from_numpy" ELSE "ask"
  /\ nStop' = nStop + 1
  /\ UNCHANGED <<inputs, x0, es, locals, best_x, told, reported, nAsk, nAcq, nTell, failedAt>>

\* line 60: xs = es.ask()
Ask ==
  /\ pc = "ask"
  /\ nAsk <= MaxIter
  /\ nAsk' = nAsk + 1
  /\ \/ /\ \E raw \in [1 .. PopSize -> RawPoints(es.N)] :
             /\ xs' = RepairPop(raw)
             /\ es' = [es EXCEPT !.sent = RepairPop(raw)]
        /\ pc' = "to_tensor"
        /\ UNCHANGED failedAt
     \/ /\ Raise("ask")
        /\ UNCHANGED <<xs, es>>
  /\ UNCHANGED <<inputs, x0, stopped, X, Y, y, best_x, told, reported, nStop, nAcq, nTell>>

\* line 62: X = torch.from_numpy(xs).to(device=X_init.device, dtype=X_init.dtype)
ToTensor ==
  /\ pc = "to_tensor"
  /\ \/ /\ X' = ToBatch(from_numpy(xs), X_init.device, X_init.dtype)
        /\ pc' = "acq"
        /\ UNCHANGED failedAt
     \/ /\ Raise("to_tensor")
        /\ UNCHANGED X
  /\ UNCHANGED <<inputs, x0, es, stopped, xs, Y, y, best_x, told, reported, counts>>

\* the acquisition function called once per candidate instead of once per batch
Eval_PerCandidate ==
  /\ pc = "acq"
  /\ nAcq' = nAcq + Len(X.data)
  /\ \/ /\ Y' = NegAcq(acq, X)
        /\ pc' = "to_numpy"
        /\ UNCHANGED failedAt
     \/ /\ Raise("acq")
        /\ UNCHANGED Y
  /\ UNCHANGED <<inputs, x0, es, stopped, xs, X, y, best_x, told, reported, nStop, nAsk, nTell>>

\* line 64: Y = - acq_func(X)
Eval ==
  /\ pc = "acq"
  /\ nAcq' = nAcq + 1
  /\ \/ /\ Y' = NegAcq(acq, X)
        /\ pc' = "to_numpy"
        /\ UNCHANGED failedAt
     \/ /\ Raise("acq")
        /\ UNCHANGED Y
  /\ UNCHANGED <<inputs, x0, es, stopped, xs, X, y, best_x, told, reported, nStop, nAsk, nTell>>

\* line 65: y = Y.view(-1).double().numpy(); numpy() raises on a cuda tensor
ToNumpy ==
  /\ pc = "to_numpy"
  /\ IF Y.device = "cpu"
       THEN /\ y' = [i \in DOMAIN Y.data |-> ToDtype(Y.data[i], "float64")]
            /\ pc' = "tell"
            /\ UNCHANGED failedAt
       ELSE /\ Raise("to_numpy")
            /\ UNCHANGED y
  /\ UNCHANGED <<inputs, x0, es, stopped, xs, X, Y, best_x, told, reported, counts>>

\* the converted batch told instead of the asked one: es.tell(X, y)
Tell_Converted ==
  /\ pc = "tell"
  /\ nTell' = nTell + 1
  /\ told' = [xs |-> X.data, y |-> y]
  /\ reported' = reported \cup Pairs(X.data, y)
  /\ \/ /\ es' = [es EXCEPT !.best = BestUpdate(es.best, X.data, y),
                            !.countiter = es.countiter + 1]
        /\ pc' = "stop"
        /\ UNCHANGED failedAt
     \/ /\ Raise("tell")
        /\ UNCHANGED es
  /\ UNCHANGED <<inputs, x0, stopped, locals, best_x, nStop, nAsk, nAcq>>

\* line 66: es.tell(xs, y)
Tell ==
  /\ pc = "tell"
  /\ nTell' = nTell + 1
  /\ told' = [xs |-> xs, y |-> y]
  /\ reported' = reported \cup Pairs(xs, y)
  /\ \/ /\ es' = [es EXCEPT !.best = BestUpdate(es.best, xs, y),
                            !.countiter = es.countiter + 1]
        /\ pc' = "stop"
        /\ UNCHANGED failedAt
     \/ /\ Raise("tell")
        /\ UNCHANGED es
  /\ UNCHANGED <<inputs, x0, stopped, locals, best_x, nStop, nAsk, nAcq>>

\* line 69: best_x = torch.from_numpy(es.best.x); es.best.x is None before any tell
FromNumpy ==
  /\ pc = "from_numpy"
  /\ IF es.best.x # None
       THEN /\ best_x' = from_numpy(es.best.x)
            /\ pc' = "to_device"
            /\ UNCHANGED failedAt
       ELSE /\ Raise("from_numpy")
            /\ UNCHANGED best_x
  /\ UNCHANGED <<inputs, x0, es, stopped, locals, told, reported, counts>>

\* lines 69-71 indented into the loop body
ToDevice_InLoop ==
  /\ pc = "to_device"
  /\ best_x' = ToVec(best_x, X_init.device, X_init.dtype)
  /\ pc' = "stop"
  /\ UNCHANGED <<inputs, x0, es, stopped, locals, told, reported, counts, failedAt>>

\* line 71: best_x = best_x.to(device=X_init.device, dtype=X_init.dtype)
ToDevice ==
  /\ pc = "to_device"
  /\ best_x' = ToVec(best_x, X_init.device, X_init.dtype)
  /\ pc' = "done"
  /\ UNCHANGED <<inputs, x0, es, stopped, locals, told, reported, counts, failedAt>>

Next ==
  \/ Construct
  \/ StopCheck
  \/ Ask
  \/ ToTensor
  \/ Eval
  \/ ToNumpy
  \/ Tell
  \/ FromNumpy
  \/ ToDevice

Spec == Init /\ [][Next]_vars

\* every statement of the cell runs to its end once started
FairSpec == Spec /\ WF_vars(Next)

\* ===================================================================
\* Properties
\* ===================================================================
InBody == pc \in {"to_tensor", "acq", "to_numpy", "tell"}
InLoop == pc \in {"stop", "ask"} \/ InBody
AfterLoop == pc \in {"from_numpy", "to_device", "done"}
BodyFailed == failedAt \in {"ask", "to_tensor", "acq", "to_numpy"}
d == Len(X_init.data)
InCube(x) == \A j \in DOMAIN x : 0 <= x[j] /\ x[j] <= One

\* C1: ask and tell strictly alternate, starting with ask: at most one ask is
\* outstanding, it is outstanding exactly inside the loop body (or when the
\* body raised), and the population of every tell is the population the
\* optimizer handed out in the ask just before it.
C1_AskTellAlternate ==
  /\ nTell <= nAsk /\ nAsk <= nTell + 1
  /\ (nAsk = nTell + 1) <=> (InBody \/ BodyFailed)
  /\ pc = "tell" => xs = es.sent
  /\ (nTell > 0 /\ nTell = nAsk) => told.xs = es.sent

C1_Witness == pc = "stop" /\ nTell = 2 /\ X_init.dtype = "float32" /\ X.data # xs

\* C2: es.stop() is checked before every ask, the first included; the loop is
\* left only after a check that returned true, is continued only after a check
\* that returned false, and after a true check no ask, evaluation or tell follows.
C2_StopGuardsLoop ==
  /\ [](/\ pc = "ask" => nStop = nAsk + 1
        /\ (InBody \/ pc = "stop") => nStop = nAsk
        /\ AfterLoop => stopped
        /\ (pc = "ask" \/ InBody) => ~stopped)
  /\ [][stopped => (nStop' = nStop /\ nAsk' = nAsk /\ nAcq' = nAcq /\ nTell' = nTell)]_vars

C2_Witness == pc = "done" /\ nStop = 3 /\ nAsk = 2

\* C3 as amended: the score told for candidate i is the negated acquisition
\* value at that candidate converted to X_init's dtype, in population order;
\* among the evaluated points a higher acquisition value gets a lower score;
\* with a float64 X_init the point evaluated is the candidate itself.
C3_ScoreIsNegatedAcqOfConverted ==
  nTell > 0 =>
    /\ DOMAIN told.y = DOMAIN told.xs
    /\ \A i \in DOMAIN told.xs :
         /\ told.y[i] = 0 - acq_func(acq, ToDtypeVec(told.xs[i], X_init.dtype))
         /\ X_init.dtype = "float64" => told.y[i] = 0 - acq_func(acq, told.xs[i])
         /\ \A k \in DOMAIN told.xs :
              acq_func(acq, ToDtypeVec(told.xs[i], X_init.dtype))
                > acq_func(acq, ToDtypeVec(told.xs[k], X_init.dtype))
              => told.y[i] < told.y[k]

C3_Witness ==
  /\ nTell = 2 /\ X_init.dtype = "float32"
  /\ \E i \in DOMAIN told.xs : told.y[i] # 0 - acq_func(acq, told.xs[i])

\* C3 as stated: the score told for candidate xs[i] is -acq_func(xs[i])
C3_Original ==
  nTell > 0 =>
    /\ DOMAIN told.y = DOMAIN told.xs
    /\ \A i \in DOMAIN told.xs : told.y[i] = 0 - acq_func(acq, told.xs[i])

\* C4: every iteration calls the acquisition function once, on the batch of
\* all candidates of that iteration's ask, in order; the number of calls lies
\* between the tells and the asks, and the three agree on normal completion.
C4_OneBatchedCallPerIteration ==
  /\ nTell <= nAcq /\ nAcq <= nAsk
  /\ pc \in {"to_numpy", "tell", "stop"} \/ AfterLoop => nAcq = nAsk
  /\ pc \in {"to_tensor", "acq"} => nAcq = nAsk - 1
  /\ pc \in {"acq", "to_numpy", "tell"} =>
       /\ DOMAIN X.data = DOMAIN xs
       /\ \A i \in DOMAIN xs : X.data[i] = ToDtypeVec(xs[i], X_init.dtype)
  /\ pc \in {"to_numpy", "tell"} => DOMAIN Y.data = DOMAIN xs
  /\ pc = "done" => nAsk = nAcq /\ nAcq = nTell

C4_Witness == pc = "done" /\ nAcq = 2 /\ nTell = 2 /\ nAsk = 2

\* C5: every candidate given to the acquisition function and to tell has
\* X_init's dimension, and tell gets one score per candidate, PopSize of each.
C5_DimensionsAgree ==
  /\ pc \in {"acq", "to_numpy", "tell"} =>
       /\ Len(X.data) = PopSize
       /\ \A i \in DOMAIN X.data : Len(X.data[i]) = d
  /\ pc = "tell" => Len(y) = Len(xs)
  /\ nTell > 0 =>
       /\ Len(told.xs) = PopSize /\ Len(told.y) = PopSize
       /\ \A i \in DOMAIN told.xs : Len(told.xs[i]) = d

C5_Witness == pc = "tell" /\ d = MaxDim /\ nTell = 1

\* C6: every point the acquisition function is evaluated on, and the result
\* best_x, lies in the unit cube, whatever X_init is.
C6_UnitCube ==
  /\ \A i \in DOMAIN X.data : InCube(X.data[i])
  /\ pc = "done" => InCube(best_x.data)

C6_Witness ==
  /\ pc = "done" /\ ~InCube(X_init.data) /\ X_init.dtype = "float32"
  /\ \E j \in DOMAIN best_x.data : best_x.data[j] = One

C8_FailurePropagates ==
  /\ [](failedAt # "" =>
          /\ pc = "failed"
          /\ best_x = NoTensor
          /\ BodyFailed => nTell = nAsk - 1
          /\ failedAt = "tell" => nTell = nAsk
          /\ failedAt \in {"to_numpy", "tell", "acq"} => nAcq = nAsk
          /\ failedAt \in {"ask", "to_tensor"} => nAcq = nAsk - 1)
  /\ [][failedAt # "" => UNCHANGED vars]_vars

C8_Witness == pc = "failed" /\ failedAt = "acq" /\ nTell = 1 /\ nAsk = 2

\* C9: after the loop, best_x is es.best.x as a tensor of X_init's device,
\* dtype and dimension; it is unassigned until the loop has ended, and the
\* conversion changes neither X_init nor the optimizer.
C9_BestIsConvertedBack ==
  /\ [](/\ pc = "done" =>
             /\ best_x.data = ToDtypeVec(es.best.x, X_init.dtype)
             /\ best_x.device = X_init.device
             /\ best_x.dtype = X_init.dtype
             /\ Len(best_x.data) = d
        /\ InLoop => best_x = NoTensor)
  /\ [][AfterLoop => UNCHANGED <<X_init, es>>]_vars

C9_Witness ==
  pc = "done" /\ X_init.dtype = "float32" /\ best_x.data # es.best.x

\* C10 as amended: on normal completion at least one iteration has run and
\* best_x is the conversion to X_init's dtype of a candidate that was told,
\* none of the told candidates having a strictly lower score.
C10_BestAmongTold ==
  pc = "done" =>
    /\ nTell >= 1
    /\ \E r \in reported :
         /\ best_x.data = ToDtypeVec(r.x, X_init.dtype)
         /\ \A q \in reported : q.f >= r.f

C10_Witness ==
  /\ pc = "done" /\ nTell = 2
  /\ \A r \in reported : r.x # best_x.data
  /\ \E q, r \in reported : q.f # r.f

\* C10 as stated: best_x is itself one of the told candidates, with no told
\* candidate of a strictly lower score.
C10_Original ==
  pc = "done" =>
    /\ nTell >= 1
    /\ \E r \in reported :
         /\ best_x.data = r.x
         /\ \A q \in reported : q.f >= r.f

====
